---- MODULE Spec2Model ----
(***************************************************************************)
(* Model of generator.py: the visible-syntax tree rewriter                 *)
(* (VisibleSyntaxTreeprocessor), the indent-guide annotator                *)
(* (add_indent_guides_to_html) and the placeholder substitution loop of    *)
(* generate_portfolio.                                                     *)
(*                                                                         *)
(* A string is a sequence of fragments: single characters, and literal    *)
(* pieces of the source that the code never looks inside ("md-list",       *)
(* "__CODE_BLOCK_", "language-").  Python's None and '' are both the empty *)
(* sequence: the code only ever tests them for truthiness or concatenates  *)
(* them.  An ElementTree element is a record [tag, attrib, text, tail,     *)
(* kids]; attrib is a set of <<name, value>> pairs, value a string.        *)
(***************************************************************************)
EXTENDS Integers, Sequences, FiniteSets, TLC

VARIABLES
    root,              \* the tree handed to run(), mutated in place
    input,             \* the tree as it was when run() was first called
    todo,              \* paths process_element has still to leave, post-order
    last,              \* the element process_element left last: before / after
    pass,              \* which call of run() is in progress (1 or 2)
    first,             \* the tree the first call of run() returned
    code_blocks,       \* self.code_blocks: sequence of <<placeholder_id, html>>
    code_counter,      \* self.code_counter
    PYGMENTS_AVAILABLE,\* the module flag set by the import at load time
    pc,                \* "run" | "returned" | "guides" | "subst" | "idle"
    html_content,      \* the string add_indent_guides_to_html / the loop works on
    lines_in,          \* per input line: [indent, chars] as generated
    result,            \* add_indent_guides_to_html's list `result`
    pending            \* entries of code_blocks the substitution loop has to visit

vars == <<root, input, todo, last, pass, first, code_blocks, code_counter,
          PYGMENTS_AVAILABLE, pc, html_content, lines_in, result, pending>>

treeVars == <<root, input, todo, last, pass, first, code_blocks, code_counter,
              PYGMENTS_AVAILABLE>>

(***************************************************************************)
(* Bounds of the model.                                                    *)
(***************************************************************************)
MaxNodes == 4
MaxIndent == 12
MaxLines == 2
MaxBlocks == 2

(***************************************************************************)
(* Strings.                                                                *)
(***************************************************************************)
RECURSIVE Repeat(_, _)
Repeat(c, n) == IF n <= 0 THEN <<>> ELSE <<c>> \o Repeat(c, n - 1)

RECURSIVE Concat(_)
Concat(ss) == IF ss = <<>> THEN <<>> ELSE Head(ss) \o Concat(Tail(ss))

Digit(d) ==
    CASE d = 0 -> "0" [] d = 1 -> "1" [] d = 2 -> "2" [] d = 3 -> "3"
      [] d = 4 -> "4" [] d = 5 -> "5" [] d = 6 -> "6" [] d = 7 -> "7"
      [] d = 8 -> "8" [] d = 9 -> "9"

RECURSIVE Str(_)
Str(n) == IF n < 10 THEN <<Digit(n)>> ELSE Str(n \div 10) \o <<Digit(n % 10)>>

Whitespace == {" ", "\n", "\t"}

Strip(s) ==
    LET keep == {i \in 1..Len(s) : s[i] \notin Whitespace}
    IN  IF keep = {} THEN <<>>
        ELSE LET lo == CHOOSE i \in keep : \A j \in keep : i <= j
                 hi == CHOOSE i \in keep : \A j \in keep : j <= i
             IN  SubSeq(s, lo, hi)

(***************************************************************************)
(* ElementTree elements.                                                   *)
(***************************************************************************)
Element(tag, attrib, text, tail, kids) ==
    [tag |-> tag, attrib |-> attrib, text |-> text, tail |-> tail, kids |-> kids]

HasAttr(e, name) == \E a \in e.attrib : a[1] = name

SetAttr(e, name, value) ==
    [e EXCEPT !.attrib = {a \in @ : a[1] # name} \cup {<<name, value>>}]

Clear(e) == [e EXCEPT !.attrib = {}, !.text = <<>>, !.tail = <<>>, !.kids = <<>>]

Span(cls, text, tail, kids) == Element("span", {<<"class", cls>>}, text, tail, kids)

RECURSIVE IterText(_)
IterText(e) ==
    e.text \o Concat([i \in 1..Len(e.kids) |-> IterText(e.kids[i]) \o e.kids[i].tail])

Find(e, tag) ==
    LET hits == {i \in 1..Len(e.kids) : e.kids[i].tag = tag}
    IN  IF hits = {} THEN 0 ELSE CHOOSE i \in hits : \A j \in hits : i <= j

RECURSIVE Get(_, _)
Get(e, path) == IF path = <<>> THEN e ELSE Get(e.kids[Head(path)], Tail(path))

RECURSIVE Put(_, _, _)
Put(e, path, new) ==
    IF path = <<>> THEN new
    ELSE [e EXCEPT !.kids[Head(path)] = Put(@, Tail(path), new)]

RECURSIVE PostOrder(_)
PostOrder(e) ==
    Concat([i \in 1..Len(e.kids) |->
              LET sub == PostOrder(e.kids[i])
              IN  [j \in 1..Len(sub) |-> <<i>> \o sub[j]]])
    \o << <<>> >>

RECURSIVE FindAll(_, _)
FindAll(e, tag) ==
    Concat([i \in 1..Len(e.kids) |->
              LET sub == FindAll(e.kids[i], tag)
              IN  (IF e.kids[i].tag = tag THEN << <<i>> >> ELSE <<>>)
                  \o [j \in 1..Len(sub) |-> <<i>> \o sub[j]]])

(***************************************************************************)
(* str.split(sep), str.replace(old, new), str.startswith, substring test.  *)
(***************************************************************************)
StartsWith(s, prefix) ==
    Len(prefix) <= Len(s) /\ SubSeq(s, 1, Len(prefix)) = prefix

\* Non-overlapping occurrences of old (not empty), leftmost first.
RECURSIVE Replace(_, _, _)
Replace(s, old, new) ==
    LET hits == {i \in 1..(Len(s) - Len(old) + 1) : SubSeq(s, i, i + Len(old) - 1) = old}
    IN  IF hits = {} THEN s
        ELSE LET k == CHOOSE i \in hits : \A j \in hits : i <= j
             IN  SubSeq(s, 1, k - 1) \o new
                 \o Replace(SubSeq(s, k + Len(old), Len(s)), old, new)

Contains(s, sub) ==
    \E i \in 1..(Len(s) - Len(sub) + 1) : SubSeq(s, i, i + Len(sub) - 1) = sub

\* s.split(sep) for a one-fragment separator: always at least one piece.
RECURSIVE Split(_, _)
Split(s, sep) ==
    LET hits == {i \in 1..Len(s) : s[i] = sep}
    IN  IF hits = {} THEN <<s>>
        ELSE LET k == CHOOSE i \in hits : \A j \in hits : i <= j
             IN  <<SubSeq(s, 1, k - 1)>> \o Split(SubSeq(s, k + 1, Len(s)), sep)

\* s.split(): pieces between runs of whitespace, empty pieces dropped.
RECURSIVE Words(_)
Words(s) ==
    IF s = <<>> THEN <<>>
    ELSE IF Head(s) \in Whitespace THEN Words(Tail(s))
    ELSE LET stops == {i \in 1..Len(s) : s[i] \in Whitespace}
             k == IF stops = {} THEN Len(s) + 1
                  ELSE CHOOSE i \in stops : \A j \in stops : i <= j
         IN  <<SubSeq(s, 1, k - 1)>> \o Words(SubSeq(s, k, Len(s)))

(***************************************************************************)
(* add_indent_guides_to_html.  A line container is the record              *)
(* [guides, line]: f'<div class="md-codeblock-line">{guide_html}{line}     *)
(* </div>' with guides the columns i of the emitted guide spans (the span  *)
(* for column i is styled left: i * 0.6 em).                               *)
(***************************************************************************)
\* re.sub(r'<[^>]+>', '', line): leftmost matches; a match is '<', one or
\* more fragments other than '>', then the first '>'.
\* StripTags that strips nothing: the indent is counted on the raw line.
KeepTags(line) == line

\* The first '>' after position i, or 0.
NextClose(line, i) ==
    LET closes == {j \in (i + 1)..Len(line) : line[j] = ">"}
    IN  IF closes = {} THEN 0 ELSE CHOOSE j \in closes : \A m \in closes : j <= m

RECURSIVE StripTags(_)
StripTags(line) ==
    LET opens == {i \in 1..Len(line) : line[i] = "<" /\ NextClose(line, i) >= i + 2}
    IN  IF opens = {} THEN line
        ELSE LET k == CHOOSE i \in opens : \A j \in opens : i <= j
             IN  SubSeq(line, 1, k - 1)
                 \o StripTags(SubSeq(line, NextClose(line, k) + 1, Len(line)))

\* s.lstrip(' ')
LStripSpaces(s) ==
    LET others == {i \in 1..Len(s) : s[i] # " "}
    IN  IF others = {} THEN <<>>
        ELSE SubSeq(s, CHOOSE i \in others : \A j \in others : i <= j, Len(s))

\* list(range(4, stop, 4))
RECURSIVE Range4(_, _)
Range4(from, stop) ==
    IF from >= stop THEN <<>> ELSE <<from>> \o Range4(from + 4, stop)

LineContainer(line) ==
    LET plain_text == StripTags(line)
        indent_level == Len(plain_text) - Len(LStripSpaces(plain_text))
    IN  [guides |-> Range4(4, indent_level + 1), line |-> line]

add_indent_guides_to_html(html) ==
    LET lines == Split(html, "\n")
    IN  [i \in 1..Len(lines) |-> LineContainer(lines[i])]

\* The guide span of column i and the text of one line container; the
\* containers are joined with '\n'.
GuideHtml(i) == <<"<span class=\"md-codeblock-indent\" style=\"left: ", "0.6*">>
                \o Str(i) \o <<"em;\"></span>">>

ContainerHtml(c) ==
    <<"<div class=\"md-codeblock-line\">">>
    \o Concat([j \in 1..Len(c.guides) |-> GuideHtml(c.guides[j])])
    \o c.line \o <<"</div>">>

RECURSIVE Join(_, _)
Join(parts, sep) ==
    IF parts = <<>> THEN <<>>
    ELSE IF Len(parts) = 1 THEN parts[1]
    ELSE parts[1] \o <<sep>> \o Join(Tail(parts), sep)

GuidesHtml(html) ==
    LET cs == add_indent_guides_to_html(html)
    IN  Join([i \in 1..Len(cs) |-> ContainerHtml(cs[i])], "\n")

(***************************************************************************)
(* The code-block rule of process_element (a 'p' with a 'code' child).     *)
(***************************************************************************)
placeholder_id(n) == <<"__CODE_BLOCK_">> \o Str(n) \o <<"__">>

\* The language named by the first class of the form language-<name>, or
\* <<>> (None) when there is none.
Lang(code_elem) ==
    IF ~HasAttr(code_elem, "class") THEN <<>>
    ELSE LET value == (CHOOSE a \in code_elem.attrib : a[1] = "class")[2]
             classes == Words(value)
             hits == {i \in 1..Len(classes) : StartsWith(classes[i], <<"language-">>)}
         IN  IF hits = {} THEN <<>>
             ELSE Replace(classes[CHOOSE i \in hits : \A j \in hits : i <= j],
                          <<"language-">>, <<>>)

\* pygments.highlight with HtmlFormatter: the text inside div and pre, a
\* line break after it.  The lexer of a named language wraps the text of
\* each line in a token span; the guessed or plain lexer leaves it bare.
Highlight(code_text, lang) ==
    LET lines == Split(code_text, "\n")
        spans == [i \in 1..Len(lines) |->
                    IF lang # <<>> /\ lines[i] # <<>>
                    THEN <<"<", "span class=\"synn\"", ">">> \o lines[i]
                         \o <<"<", "/span", ">">>
                    ELSE lines[i]]
    IN  <<"<", "div class=\"highlight\"", ">", "<", "pre", ">">> \o Join(spans, "\n")
        \o <<"\n", "<", "/pre", ">", "<", "/div", ">", "\n">>

\* The body of the try block once highlight() has returned.
Extract(element, code_text, lang, blocks, counter) ==
    LET final_html == GuidesHtml(Highlight(code_text, lang))
        id == placeholder_id(counter)
    IN  [elem |-> [SetAttr(SetAttr([Clear(element) EXCEPT !.tag = "div"],
                                   "class", <<"md-codeblock">>),
                           "data-placeholder", id)
                   EXCEPT !.text = id],
         blocks |-> Append(blocks, <<id, final_html>>),
         counter |-> counter + 1,
         raised |-> FALSE]

\* raises: whether highlight() raises once it is called; the except clause
\* then leaves the element as it is.  raised: the call was made and raised.
CodeBlockRule(element, available, raises, blocks, counter) ==
    LET code_elem == element.kids[Find(element, "code")]
        code_text == IterText(code_elem)
        called == available /\ Strip(code_text) # <<>>
    IN  IF called /\ ~raises
        THEN Extract(element, code_text, Lang(code_elem), blocks, counter)
        ELSE [elem |-> element, blocks |-> blocks, counter |-> counter,
              raised |-> called]

(***************************************************************************)
(* The heading, blockquote, list and inline rules of process_element.      *)
(***************************************************************************)
Headings == {"h1", "h2", "h3", "h4", "h5", "h6"}

\* int(element.tag[1])
Level(tag) ==
    CASE tag = "h1" -> 1 [] tag = "h2" -> 2 [] tag = "h3" -> 3
      [] tag = "h4" -> 4 [] tag = "h5" -> 5 [] tag = "h6" -> 6

\* HeadingRule with the marker's tail left unset (hash_span.tail = ' ' forgotten).
HeadingRuleNoSpace(element) ==
    LET hashes == Repeat("#", Level(element.tag))
        hash_span == Span(<<"md-hash">>, hashes, element.text, <<>>)
        div == Element("div", {<<"class", <<"md-heading">>>>}, <<>>, <<>>,
                       <<hash_span>> \o element.kids)
    IN  [Clear(element) EXCEPT !.tag = "div", !.kids = <<div>>]

HeadingRule(element) ==
    LET hashes == Repeat("#", Level(element.tag))
        hash_span == Span(<<"md-hash">>, hashes, <<" ">>, <<>>)
        div0 == Element("div", {<<"class", <<"md-heading">>>>}, <<>>, <<>>, <<hash_span>>)
        div1 == IF element.text # <<>>
                THEN IF Len(div0.kids) > 0
                     THEN [div0 EXCEPT !.kids[Len(div0.kids)].tail = @ \o element.text]
                     ELSE [div0 EXCEPT !.text = element.text]
                ELSE div0
        div == [div1 EXCEPT !.kids = @ \o element.kids]
    IN  [Clear(element) EXCEPT !.tag = "div", !.kids = <<div>>]

\* The div built for one paragraph p of a blockquote.
QuoteDiv(p) ==
    LET marker == Span(<<"md-quote-marker">>, <<">">>, <<" ">>, <<>>)
        text_span == Span(<<"md-quote-text">>, p.text, <<>>, p.kids)
    IN  Element("div", {<<"class", <<"md-blockquote">>>>}, <<>>, <<>>,
                <<marker, text_span>>)

\* The scan `for i, child in enumerate(parent): if child == p` compares by
\* identity with the direct children of the blockquote: it finds p exactly
\* when p's path from the blockquote has length 1.
ReplaceParagraph(parent, path, p) ==
    IF Len(path) = 1 THEN [parent EXCEPT !.kids[path[1]] = QuoteDiv(p)]
    ELSE parent

RECURSIVE ReplaceParagraphs(_, _, _)
ReplaceParagraphs(parent, paths, original) ==
    IF paths = <<>> THEN parent
    ELSE ReplaceParagraphs(ReplaceParagraph(parent, Head(paths), Get(original, Head(paths))),
                           Tail(paths), original)

BlockquoteRule(element) ==
    ReplaceParagraphs(element, FindAll(element, "p"), element)

\* The marker of the list item that is the (i+1)-th 'li' child of a list.
ListMarker(listTag, i) ==
    IF listTag = "ul" THEN Span(<<"md-bullet">>, <<"*">>, <<" ">>, <<>>)
    ELSE Span(<<"md-number">>, Str(i + 1) \o <<".">>, <<" ">>, <<>>)

\* ListItem without the 'class' not in li.attrib guard.
ListItemUnguarded(li, listTag, i) ==
    LET tagged == SetAttr(li, "class", <<"md-list-item">>)
        marker == ListMarker(listTag, i)
    IN  IF li.text # <<>>
        THEN [tagged EXCEPT !.kids = <<[marker EXCEPT !.tail = @ \o li.text]>> \o @,
                            !.text = <<>>]
        ELSE [tagged EXCEPT !.kids = <<marker>> \o @]

ListItem(li, listTag, i) ==
    IF HasAttr(li, "class") THEN li
    ELSE LET tagged == SetAttr(li, "class", <<"md-list-item">>)
             marker == ListMarker(listTag, i)
         IN  IF li.text # <<>>
             THEN [tagged EXCEPT !.kids = <<[marker EXCEPT !.tail = @ \o li.text]>> \o @,
                                 !.text = <<>>]
             ELSE [tagged EXCEPT !.kids = <<marker>> \o @]

\* ItemIndex taken over all the children instead of the 'li' children.
ItemIndexOfChild(element, k) == k - 1

\* enumerate() index of child k among the 'li' children.
ItemIndex(element, k) ==
    Cardinality({j \in 1..(k - 1) : element.kids[j].tag = "li"})

ListRule(element) ==
    LET tagged == IF HasAttr(element, "class") THEN element
                  ELSE SetAttr(element, "class", <<"md-list">>)
    IN  [tagged EXCEPT !.kids =
            [k \in 1..Len(element.kids) |->
                IF element.kids[k].tag = "li"
                THEN ListItem(element.kids[k], element.tag, ItemIndex(element, k))
                ELSE element.kids[k]]]

\* wrap_with_syntax without after.tail = original_tail: clear() drops the tail.
wrap_dropping_tail(element, prefix, suffix, prefix_class, content_class) ==
    LET before == Span(prefix_class, prefix, <<>>, <<>>)
        inner == Span(content_class, element.text, <<>>, element.kids)
        after == Span(prefix_class, suffix, <<>>, <<>>)
    IN  [Clear(element) EXCEPT !.tag = "span", !.kids = <<before, inner, after>>]

wrap_with_syntax(element, prefix, suffix, prefix_class, content_class) ==
    LET original_text == element.text
        original_tail == element.tail
        original_children == element.kids
        before == Span(prefix_class, prefix, <<>>, <<>>)
        inner == Span(content_class, original_text, <<>>, original_children)
        after == Span(prefix_class, suffix, original_tail, <<>>)
    IN  [Clear(element) EXCEPT !.tag = "span", !.kids = <<before, inner, after>>]

\* The grave accent U+0060, which a TLA+ string cannot hold.
Backtick == "GRAVE"

\* InlineRule with the emphasis delimiters given to strong as well.
InlineRuleOneStar(element) ==
    IF element.tag \in {"em", "strong"}
    THEN wrap_with_syntax(element, <<"*">>, <<"*">>, <<"md-asterisk">>, <<"md-italic">>)
    ELSE IF element.tag = "code"
    THEN wrap_with_syntax(element, <<Backtick>>, <<Backtick>>,
                          <<"md-backtick">>, <<"md-code">>)
    ELSE element

InlineRule(element) ==
    IF element.tag = "em"
    THEN wrap_with_syntax(element, <<"*">>, <<"*">>, <<"md-asterisk">>, <<"md-italic">>)
    ELSE IF element.tag = "strong"
    THEN wrap_with_syntax(element, <<"*", "*">>, <<"*", "*">>,
                          <<"md-double-asterisk">>, <<"md-bold">>)
    ELSE IF element.tag = "code"
    THEN wrap_with_syntax(element, <<Backtick>>, <<Backtick>>,
                          <<"md-backtick">>, <<"md-code">>)
    ELSE element

\* What process_element does to an element once its children are done.
\* Result: [elem, blocks, counter, raised].
ProcessOwn(element, available, raises, blocks, counter) ==
    IF element.tag = "p" /\ Find(element, "code") # 0
    THEN CodeBlockRule(element, available, raises, blocks, counter)
    ELSE LET keep(e) == [elem |-> e, blocks |-> blocks, counter |-> counter,
                        raised |-> FALSE]
         IN  IF element.tag \in Headings THEN keep(HeadingRule(element))
             ELSE LET quoted == IF element.tag = "blockquote"
                                THEN BlockquoteRule(element) ELSE element
                      listed == IF quoted.tag \in {"ul", "ol"}
                                THEN ListRule(quoted) ELSE quoted
                  IN  keep(InlineRule(listed))

(***************************************************************************)
(* The trees run() is given: the root 'div' the markdown parser builds,    *)
(* holding one block of at most MaxNodes elements.  Block elements carry   *)
(* the tail "\n" and block containers the text "\n" that the parser's      *)
(* prettify pass, which runs before this treeprocessor, gives them.        *)
(* A list may hold a 'p' beside its items: the list rule filters on 'li'.  *)
(***************************************************************************)
Inlines == {"em", "strong", "code"}
Blocks == Headings \cup {"p", "blockquote", "ul", "ol"}

KidTags(tag) ==
    CASE tag = "blockquote" -> {"p", "blockquote", "ul"}
      [] tag = "ul" -> {"li"}
      [] tag = "ol" -> {"li", "p"}
      [] tag = "li" -> {"p", "ul", "ol", "em", "code"}
      [] tag = "p" -> Inlines
      [] tag \in Headings -> {"em", "code"}
      [] tag = "strong" -> {"em"}
      [] tag = "em" -> {"code"}
      [] OTHER -> {}

Texts(tag, kids) ==
    CASE tag = "code" -> {<<"c">>}
      [] tag \in {"blockquote", "ul", "ol"} ->
            {IF kids = <<>> THEN <<>> ELSE <<"\n">>}
      [] tag = "li" /\ kids # <<>> /\ kids[1].tag \notin Inlines -> {<<"\n">>, <<"a">>}
      [] OTHER -> IF kids = <<>> THEN {<<"a">>} ELSE {<<>>, <<"a">>}

Tails(tag) == IF tag \in Inlines THEN {<<>>, <<"t">>} ELSE {<<"\n">>}

Labelled(tag, kids) ==
    {Element(tag, {}, text, tail, kids) : text \in Texts(tag, kids), tail \in Tails(tag)}

RECURSIVE TreesOfSize(_, _), ForestsOfSize(_, _)
TreesOfSize(tag, n) ==
    UNION {Labelled(tag, kids) : kids \in ForestsOfSize(KidTags(tag), n - 1)}

ForestsOfSize(tags, n) ==
    IF n = 0 THEN {<<>>}
    ELSE UNION {{<<t>> \o rest :
                    t \in UNION {TreesOfSize(tag, m) : tag \in tags},
                    rest \in ForestsOfSize(tags, n - m)} : m \in 1..n}

InputTrees ==
    {Element("div", {}, <<"\n">>, <<>>, <<block>>) :
        block \in UNION {TreesOfSize(tag, n) : tag \in Blocks, n \in 1..MaxNodes}}

(***************************************************************************)
(* VisibleSyntaxTreeprocessor.run: process_element walks the tree          *)
(* post-order; one step applies the rules to the next element whose        *)
(* children are done.                                                      *)
(***************************************************************************)
NoElement == Element("", {}, <<>>, <<>>, <<>>)

NoStep == [path |-> <<>>, before |-> NoElement, after |-> NoElement, raised |-> FALSE]

TreeIdle ==
    /\ html_content = <<>>
    /\ lines_in = <<>>
    /\ result = <<>>
    /\ pending = <<>>

InitTree ==
    /\ root \in InputTrees
    /\ input = root
    /\ todo = PostOrder(root)
    /\ last = NoStep
    /\ pass = 1
    /\ first = NoElement
    /\ code_blocks = <<>>
    /\ code_counter = 0
    /\ PYGMENTS_AVAILABLE \in BOOLEAN
    /\ pc = "run"
    /\ TreeIdle

ProcessElement ==
    /\ pc = "run"
    /\ todo # <<>>
    /\ \E raises \in BOOLEAN :
          LET path == Head(todo)
              element == Get(root, path)
              r == ProcessOwn(element, PYGMENTS_AVAILABLE, raises, code_blocks, code_counter)
          IN  /\ root' = Put(root, path, r.elem)
              /\ last' = [path |-> path, before |-> element, after |-> r.elem,
                           raised |-> r.raised]
              /\ code_blocks' = r.blocks
              /\ code_counter' = r.counter
    /\ todo' = Tail(todo)
    /\ UNCHANGED <<input, pass, first, PYGMENTS_AVAILABLE, pc,
                   html_content, lines_in, result, pending>>

\* run() returns root.
Return ==
    /\ pc = "run"
    /\ todo = <<>>
    /\ pc' = "returned"
    /\ first' = IF pass = 1 THEN root ELSE first
    /\ UNCHANGED <<root, input, todo, last, pass, code_blocks, code_counter,
                   PYGMENTS_AVAILABLE, html_content, lines_in, result, pending>>

\* run() is called again on the tree it returned.
RunAgain ==
    /\ pc = "returned"
    /\ pass = 1
    /\ pass' = 2
    /\ todo' = PostOrder(root)
    /\ pc' = "run"
    /\ UNCHANGED <<root, input, last, first, code_blocks, code_counter,
                   PYGMENTS_AVAILABLE, html_content, lines_in, result, pending>>

NextTree == ProcessElement \/ Return \/ RunAgain

Spec == InitTree /\ [][NextTree]_vars

(***************************************************************************)
(* Properties of the rewrite.                                              *)
(***************************************************************************)
RECURSIVE Subtrees(_)
Subtrees(e) == {e} \cup UNION {Subtrees(e.kids[i]) : i \in 1..Len(e.kids)}

TextWithTail(e) == IterText(e) \o e.tail

ClassOf(e) == IF HasAttr(e, "class") THEN (CHOOSE a \in e.attrib : a[1] = "class")[2]
              ELSE <<>>

HeadingTags == <<"h1", "h2", "h3", "h4", "h5", "h6">>

\* C1: a heading of level N is rebuilt as a container whose first child is
\* a marker with text N times '#', whose tail is one space followed by the
\* heading's leading text, and whose further children are the heading's
\* children in their order.
C1_HeadingRewritten ==
    \A N \in 1..6 :
        last.before.tag = HeadingTags[N] =>
            /\ last.after.tag = "div"
            /\ Len(last.after.kids) = 1
            /\ LET div == last.after.kids[1]
                   marker == div.kids[1]
               IN  /\ div.text = <<>>
                   /\ Len(marker.text) = N
                   /\ \A i \in 1..N : marker.text[i] = "#"
                   /\ marker.kids = <<>>
                   /\ marker.tail = <<" ">> \o last.before.text
                   /\ Tail(div.kids) = last.before.kids
                   /\ IterText(last.after) =
                         marker.text \o <<" ">> \o IterText(last.before)

C1_Witness ==
    /\ last.before.tag = "h6"
    /\ last.before.text # <<>>
    /\ Len(last.before.kids) >= 2
    /\ last.after.tag = "div"

Delimiter(tag) ==
    CASE tag = "em" -> <<"*">>
      [] tag = "strong" -> <<"*", "*">>
      [] tag = "code" -> <<Backtick>>

\* C2: an em, strong or code element is rebuilt with exactly three children,
\* prefix marker, content, suffix marker; the content holds the original
\* text and children; marker text + content text + marker text is the
\* original text between its markdown delimiters.
C2_WrapThreeParts ==
    last.before.tag \in Inlines =>
        /\ Len(last.after.kids) = 3
        /\ LET prefix == last.after.kids[1]
               content == last.after.kids[2]
               suffix == last.after.kids[3]
               d == Delimiter(last.before.tag)
           IN  /\ prefix.text = d /\ prefix.kids = <<>> /\ prefix.tail = <<>>
               /\ suffix.text = d /\ suffix.kids = <<>>
               /\ content.text = last.before.text
               /\ content.kids = last.before.kids
               /\ content.tail = <<>>
               /\ last.after.text = <<>>
               /\ prefix.text \o IterText(content) \o suffix.text
                     = d \o IterText(last.before) \o d

C2_Witness ==
    /\ last.before.tag = "strong"
    /\ last.before.text # <<>>
    /\ last.before.kids # <<>>
    /\ Len(last.after.kids) = 3

\* The enclosing parent of the element processed last, after the step and
\* as it was before the step.
ParentAfter == Get(root, SubSeq(last.path, 1, Len(last.path) - 1))

TextUpTo(parent, k) ==
    parent.text \o Concat([i \in 1..(k - 1) |-> TextWithTail(parent.kids[i])])

TextFrom(parent, k) ==
    Concat([i \in 1..(Len(parent.kids) - k) |-> TextWithTail(parent.kids[k + i])])

\* C9: the wrapped element's tail moves to the suffix marker, the wrapper
\* keeps none, and the text of the enclosing parent is what it was with the
\* two delimiters inserted around the element's own text.
C9_TailOnSuffix ==
    (last.before.tag \in Inlines /\ last.path # <<>>) =>
        LET k == last.path[Len(last.path)]
            d == Delimiter(last.before.tag)
        IN  /\ last.after.tail = <<>>
            /\ last.after.kids[Len(last.after.kids)].tail = last.before.tail
            /\ IterText(ParentAfter) =
                  TextUpTo(ParentAfter, k) \o d \o IterText(last.before) \o d
                  \o last.before.tail \o TextFrom(ParentAfter, k)

C9_Witness ==
    /\ last.before.tag = "em"
    /\ last.before.tail # <<>>
    /\ last.path # <<>>
    /\ last.path[Len(last.path)] < Len(ParentAfter.kids)
    /\ last.after.tag = "span"

Numerals == <<"1", "2", "3", "4", "5", "6", "7", "8", "9">>

\* The marker text the claim gives the k-th child of a list, a list item.
ExpectedMarker(list, k) ==
    IF list.tag = "ul" THEN <<"*">>
    ELSE <<Numerals[Cardinality({j \in 1..k : list.kids[j].tag = "li"})], ".">>

Lists(tree) == {e \in Subtrees(tree) : e.tag \in {"ul", "ol"}}

\* C3: once run() has returned, in every list of the tree the N-th list
\* item (counted among the list items only) starts with a marker whose text
\* is 'N.' in an ordered list and '*' in an unordered one; and the list step
\* gives each item's marker the tail ' ' + the item's leading text, ahead of
\* the item's children.
C3_ListMarkers ==
    /\ pc = "returned" =>
          \A list \in Lists(root) : \A k \in 1..Len(list.kids) :
              list.kids[k].tag = "li" =>
                  /\ list.kids[k].kids # <<>>
                  /\ list.kids[k].kids[1].tag = "span"
                  /\ list.kids[k].kids[1].text = ExpectedMarker(list, k)
                  /\ list.kids[k].kids[1].tail # <<>>
                  /\ list.kids[k].kids[1].tail[1] = " "
    /\ (pass = 1 /\ last.before.tag \in {"ul", "ol"}) =>
          \A k \in 1..Len(last.before.kids) :
              last.before.kids[k].tag = "li" =>
                  /\ last.after.kids[k].kids[1].text = ExpectedMarker(last.before, k)
                  /\ last.after.kids[k].kids[1].tail = <<" ">> \o last.before.kids[k].text
                  /\ last.after.kids[k].text = <<>>
                  /\ Tail(last.after.kids[k].kids) = last.before.kids[k].kids

C3_Witness ==
    /\ pc = "returned"
    /\ \E list \in Lists(root) :
          /\ list.tag = "ol"
          /\ Len(list.kids) = 3
          /\ list.kids[1].tag = "li"
          /\ list.kids[2].tag = "p"
          /\ list.kids[3].tag = "li"
          /\ list.kids[3].kids[1].text = <<"2", ".">>

MarkerClasses == {<<"md-bullet">>, <<"md-number">>}

Markers(li) == {k \in 1..Len(li.kids) : ClassOf(li.kids[k]) \in MarkerClasses}

\* C4: a second run() over the tree the first run() returned leaves it as
\* it was, and every list item still has exactly one marker.
C4_SecondRunIdempotent ==
    (pass = 2 /\ pc = "returned") =>
        /\ root = first
        /\ \A list \in Lists(root) : \A k \in 1..Len(list.kids) :
              list.kids[k].tag = "li" => Cardinality(Markers(list.kids[k])) = 1

C4_Witness ==
    /\ pass = 2
    /\ pc = "returned"
    /\ \E list \in Lists(root) : \E k \in 1..Len(list.kids) :
          list.kids[k].tag = "li" /\ Cardinality(Markers(list.kids[k])) = 1

\* The element of the tree run() was given that the last step of the first
\* run worked on: the walk follows the paths of that tree.
Original == Get(input, last.path)

IsCodeParagraph(e) ==
    /\ e.tag = "p"
    /\ Find(e, "code") # 0
    /\ Strip(IterText(e.kids[Find(e, "code")])) # <<>>

\* C5: with the highlighter available and not raising, a paragraph that
\* wraps a code element with non-blank text leaves process_element as an
\* empty div of class md-codeblock whose text is a placeholder token that
\* code_blocks registers; the code element is not wrapped in backticks.
C5_CodeBlockFirst ==
    (/\ pass = 1
     /\ last # NoStep
     /\ IsCodeParagraph(Original)
     /\ PYGMENTS_AVAILABLE
     /\ ~last.raised) =>
        /\ last.after.tag = "div"
        /\ ClassOf(last.after) = <<"md-codeblock">>
        /\ last.after.kids = <<>>
        /\ \E i \in 1..Len(code_blocks) :
              /\ code_blocks[i][1] = last.after.text
              /\ last.after.text = placeholder_id(i - 1)
        /\ \A e \in Subtrees(last.after) : ClassOf(e) # <<"md-backtick">>

\* C8: once a blockquote is processed, every paragraph of its subtree has
\* given way to a div holding the '>' marker, one space, and a span with
\* the paragraph's text and children; no 'p' is left under the blockquote.
C8_EveryParagraphQuoted ==
    last.before.tag = "blockquote" =>
        /\ FindAll(last.after, "p") = <<>>
        /\ LET paragraphs == FindAll(last.before, "p")
           IN  \A i \in 1..Len(paragraphs) :
                  LET p == Get(last.before, paragraphs[i])
                      div == Get(last.after, paragraphs[i])
                  IN  /\ div.tag = "div"
                      /\ Len(div.kids) = 2
                      /\ div.kids[1].text = <<">">>
                      /\ div.kids[1].tail = <<" ">>
                      /\ div.kids[2].text = p.text
                      /\ div.kids[2].kids = p.kids

SpacedMarkers == {<<"md-hash">>, <<"md-quote-marker">>, <<"md-bullet">>, <<"md-number">>}
Delimiters == {<<"md-asterisk">>, <<"md-double-asterisk">>, <<"md-backtick">>}

\* The text of a rewritten tree without what the rewrite inserted: the
\* marker texts, and the one space after a heading, quote or list marker.
RECURSIVE Unmarked(_)
Unmarked(e) ==
    e.text \o Concat([i \in 1..Len(e.kids) |->
        IF ClassOf(e.kids[i]) \in SpacedMarkers THEN Tail(e.kids[i].tail)
        ELSE IF ClassOf(e.kids[i]) \in Delimiters THEN e.kids[i].tail
        ELSE Unmarked(e.kids[i]) \o e.kids[i].tail])

\* C10: for a tree without code paragraphs, the text of the tree run()
\* returns, markers and their separating spaces taken out, is the text of
\* the tree it was given: no text and no tail is lost.
C10_NoTextLost ==
    (/\ pass = 1
     /\ pc = "returned"
     /\ \A e \in Subtrees(input) : ~(e.tag = "p" /\ Find(e, "code") # 0)) =>
        Unmarked(root) = IterText(input)

(***************************************************************************)
(* add_indent_guides_to_html on its own: the highlighted HTML it is given  *)
(* has up to MaxLines lines, each indented by up to MaxIndent spaces; the  *)
(* lines of one input are laid out alike: no tag, a span around the        *)
(* indent and the text, or a span that starts in the middle of the indent. *)
(***************************************************************************)
OpenTag == <<"<", "span class=\"synk\"", ">">>
CloseTag == <<"<", "/span", ">">>

Layouts == {"plain", "wrapped", "split"}
Bodies == {<<>>, <<"x">>, <<"x", " ", "y">>}

LineOf(layout, indent, body) ==
    CASE layout = "plain" -> Repeat(" ", indent) \o body
      [] layout = "wrapped" -> OpenTag \o Repeat(" ", indent) \o body \o CloseTag
      [] layout = "split" ->
            Repeat(" ", indent \div 2) \o OpenTag
            \o Repeat(" ", indent - indent \div 2) \o CloseTag \o body

RECURSIVE Indents(_)
Indents(n) ==
    IF n = 0 THEN {<<>>}
    ELSE {<<k>> \o rest : k \in 0..MaxIndent, rest \in Indents(n - 1)}

TreeUnused ==
    /\ root = NoElement
    /\ input = NoElement
    /\ todo = <<>>
    /\ last = NoStep
    /\ pass = 0
    /\ first = NoElement
    /\ PYGMENTS_AVAILABLE = TRUE

InitGuides ==
    /\ TreeUnused
    /\ code_blocks = <<>>
    /\ code_counter = 0
    /\ pending = <<>>
    /\ result = <<>>
    /\ pc = "guides"
    /\ \E n \in 1..MaxLines, layout \in Layouts, body \in Bodies :
          \E indents \in Indents(n) :
              /\ lines_in = [i \in 1..n |->
                                [indent |-> indents[i],
                                 chars |-> LineOf(layout, indents[i], body)]]
              /\ html_content = Join([i \in 1..n |-> lines_in[i].chars], "\n")

Annotate ==
    /\ pc = "guides"
    /\ result' = add_indent_guides_to_html(html_content)
    /\ pc' = "annotated"
    /\ UNCHANGED <<treeVars, html_content, lines_in, pending>>

NextGuides == Annotate

SpecGuides == InitGuides /\ [][NextGuides]_vars

\* C7: a line whose visible text starts with exactly k spaces gets k div 4
\* guide markers, at columns 4, 8, ..., whatever tags the line holds, and
\* there is one line container per input line, holding the line as it was.
C7_GuidesPerLine ==
    pc = "annotated" =>
        /\ Len(result) = Len(lines_in)
        /\ \A i \in 1..Len(lines_in) :
              /\ Len(result[i].guides) = lines_in[i].indent \div 4
              /\ \A j \in 1..Len(result[i].guides) : result[i].guides[j] = 4 * j
              /\ result[i].line = lines_in[i].chars

C7_Witness ==
    /\ pc = "annotated"
    /\ Len(lines_in) = 2
    /\ lines_in[1].indent = 12
    /\ lines_in[1].chars[1] = "<"
    /\ Len(result[1].guides) = 3
    /\ lines_in[2].indent = 7
    /\ Len(result[2].guides) = 1

(***************************************************************************)
(* generate_portfolio's placeholder loop on its own.  The document holds a *)
(* paragraph of text and up to MaxBlocks code paragraphs; code_blocks and  *)
(* the placeholder elements are what the code-block rule builds for them   *)
(* (highlighter available, no exception), and html_content is the          *)
(* serialized tree md.convert returns.                                     *)
(***************************************************************************)
AttrNames == <<"class", "data-placeholder">>

AttrText(e) ==
    Concat([i \in 1..Len(AttrNames) |->
        IF HasAttr(e, AttrNames[i])
        THEN <<" ", AttrNames[i], "=\"">>
             \o (CHOOSE a \in e.attrib : a[1] = AttrNames[i])[2] \o <<"\"">>
        ELSE <<>>])

\* The serializer of the markdown library: the element, its text, its
\* children, its closing tag, its tail.
RECURSIVE Serialize(_)
Serialize(e) ==
    <<"<", e.tag>> \o AttrText(e) \o <<">">> \o e.text
    \o Concat([i \in 1..Len(e.kids) |-> Serialize(e.kids[i])])
    \o <<"<", "/", e.tag, ">">> \o e.tail

CodeTexts ==
    {<<"x">>, <<" ">>, <<"i", "f", "\n", " ", " ", " ", " ", "x">>,
     placeholder_id(0), placeholder_id(1)}

CodeAttribs == {{}, {<<"class", <<"hl", " ", "language-", "python">>>>}}

DocTexts == {<<"a">>, placeholder_id(0)}

CodeParagraph(attrib, code_text) ==
    Element("p", {}, <<>>, <<"\n">>,
            <<Element("code", attrib, code_text, <<>>, <<>>)>>)

\* The code-block rule applied to the paragraphs in document order:
\* [elems, blocks, counter].
RECURSIVE ExtractAll(_)
ExtractAll(paragraphs) ==
    IF paragraphs = <<>> THEN [elems |-> <<>>, blocks |-> <<>>, counter |-> 0]
    ELSE LET n == Len(paragraphs)
             done == ExtractAll(SubSeq(paragraphs, 1, n - 1))
             r == CodeBlockRule(paragraphs[n], TRUE, FALSE, done.blocks, done.counter)
         IN  [elems |-> Append(done.elems, r.elem),
              blocks |-> r.blocks, counter |-> r.counter]

InitSubst ==
    /\ TreeUnused
    /\ lines_in = <<>>
    /\ result = <<>>
    /\ pc = "subst"
    /\ \E n \in 1..MaxBlocks, attrib \in CodeAttribs, text \in DocTexts :
          \E codes \in [1..n -> CodeTexts] :
              LET r == ExtractAll([i \in 1..n |-> CodeParagraph(attrib, codes[i])])
                  p == Element("p", {}, text, <<"\n">>, <<>>)
              IN  /\ code_blocks = r.blocks
                  /\ code_counter = r.counter
                  /\ pending = r.blocks
                  /\ html_content = Concat([i \in 1..(n + 1) |->
                                       Serialize((<<p>> \o r.elems)[i])])

\* One turn of `for placeholder_id, code_html in code_blocks.items()`.
ReplacePlaceholder ==
    /\ pc = "subst"
    /\ pending # <<>>
    /\ html_content' = Replace(html_content, Head(pending)[1], Head(pending)[2])
    /\ pending' = Tail(pending)
    /\ UNCHANGED <<treeVars, pc, lines_in, result>>

NextSubst == ReplacePlaceholder

SpecSubst == InitSubst /\ [][NextSubst]_vars

====
